---- MODULE Spec2Model ----
(***************************************************************************)
(* Model of the Go key/value SDK (sdk/go/kv/kv.go): the Store handle, its  *)
(* marshalling helpers and the error decoder, together with the host side  *)
(* of the key-value ABI that the Store calls into.                         *)
(*                                                                         *)
(* Go strings that the code measures (keys, store names) are sequences of  *)
(* one-character strings; C buffers are sequences as well; error messages  *)
(* are TLA+ strings built the way fmt.Sprintf builds them.                 *)
(***************************************************************************)
EXTENDS Integers, Sequences, FiniteSets, TLC

VARIABLES
    name,       \* Store.name, per Store object
    active,     \* Store.active
    ptr,        \* Store.ptr (C.key_value_store_t, an unsigned 32-bit handle)
    hostTable,  \* host: handle -> name of the store it is bound to, or NoStore
    hostData,   \* host: store name -> (key -> value) of the keys present
    cstrings,   \* number of C.CString buffers allocated and not freed
    panicked,   \* a Go runtime panic has ended the program
    nops,       \* number of invocations made so far
    last,       \* what the latest invocation did and returned
    opened,     \* history: Open succeeded on the Store and no Close since
    openCalled, \* history: Open has been invoked on the Store
    deleted,    \* history: per Store and key, standing of the latest Delete
    issued,     \* history: handle of the Store's latest successful host open, or -1
    released,   \* history: that handle has been passed to host close since
    opens,      \* history: number of successful host opens made by the Store
    closes,     \* history: number of host close calls made by the Store
    dec         \* the error decoder applied to one ErrorUnion on its own

storeVars == <<name, active, ptr>>
hostVars == <<hostTable, hostData>>
histVars == <<opened, openCalled, deleted>>
handleHist == <<issued, released, opens, closes>>
vars == <<name, active, ptr, hostTable, hostData, cstrings, panicked, nops,
          last, opened, openCalled, deleted, issued, released, opens, closes, dec>>

----------------------------------------------------------------------------
(* Bounds of the model. *)

MaxOps == 4
MaxHandle == 1
MaxTag == 7

Stores == {"s1", "s2"}
Handles == 0 .. MaxHandle
Keys == {<<"k">>, <<"a", "b">>}
Values == {<<>>, <<7>>, <<7, 9>>}
KnownStores == {<<"d", "b">>, <<"c">>}
StoreNames == KnownStores \cup {<<"x">>}
Buffers == {<<>>, <<"d">>, <<"d", "i">>, <<"x", "y", "z">>}
Tags == (0 .. MaxTag) \cup {99, 255}

----------------------------------------------------------------------------
(* Error types returned from the value store. *)

ErrorStoreTableFull == 0
ErrorNoSuchStore == 1
ErrorAccessDenied == 2
ErrorInvalidStore == 3
ErrorNoSuchKey == 4
ErrorIO == 5

(* Values that stand for "nothing": the nil error, an argument or result a call   *)
(* does not have, a handle slot bound to no store.                               *)
NilErr == [Code |-> -1, Message |-> "<nil>"]
NoArg == "-"
NoKey == <<>>
NoStore == <<>>

newError(code, message) == [Code |-> code, Message |-> message]

RECURSIVE Join(_)
Join(cs) == IF cs = <<>> THEN "" ELSE Head(cs) \o Join(Tail(cs))

(* C.GoString(p) in the place of C.GoStringN(p, n): the length is not used. *)
GoStringN_IgnoresLength(p, n) == Join(p)

(* C.GoStringN(p, n): a Go string of the first n bytes at p. *)
GoStringN(p, n) == Join(SubSeq(p, 1, n))

(* C.GoBytes(p, n): a Go byte slice copied from the first n bytes at p. *)
GoBytes(p, n) == SubSeq(p, 1, n)

(* A variant of the decoder whose NoSuchKey case repeats the InvalidStore one. *)
toErr_RepeatedCase(err) ==
    CASE err.tag = ErrorStoreTableFull -> newError(ErrorStoreTableFull, "store table full")
      [] err.tag = ErrorNoSuchStore -> newError(ErrorNoSuchStore, "no such store")
      [] err.tag = ErrorAccessDenied -> newError(ErrorAccessDenied, "access denied")
      [] err.tag = ErrorInvalidStore -> newError(ErrorInvalidStore, "invalid store")
      [] err.tag = ErrorNoSuchKey -> newError(ErrorInvalidStore, "invalid store")
      [] err.tag = ErrorIO ->
            LET str == err.val
            IN newError(ErrorIO, "io error: " \o GoStringN(str.ptr, str.len))
      [] OTHER -> newError(err.tag, "unrecognized error: " \o ToString(err.tag))

(* A variant of the decoder that takes every tag it does not know for ErrorIO. *)
toErr_DefaultIO(err) ==
    CASE err.tag = ErrorStoreTableFull -> newError(ErrorStoreTableFull, "store table full")
      [] err.tag = ErrorNoSuchStore -> newError(ErrorNoSuchStore, "no such store")
      [] err.tag = ErrorAccessDenied -> newError(ErrorAccessDenied, "access denied")
      [] err.tag = ErrorInvalidStore -> newError(ErrorInvalidStore, "invalid store")
      [] err.tag = ErrorNoSuchKey -> newError(ErrorNoSuchKey, "no such key")
      [] OTHER ->
            LET str == err.val
            IN newError(ErrorIO, "io error: " \o GoStringN(str.ptr, str.len))

toErr(err) ==
    CASE err.tag = ErrorStoreTableFull -> newError(ErrorStoreTableFull, "store table full")
      [] err.tag = ErrorNoSuchStore -> newError(ErrorNoSuchStore, "no such store")
      [] err.tag = ErrorAccessDenied -> newError(ErrorAccessDenied, "access denied")
      [] err.tag = ErrorInvalidStore -> newError(ErrorInvalidStore, "invalid store")
      [] err.tag = ErrorNoSuchKey -> newError(ErrorNoSuchKey, "no such key")
      [] err.tag = ErrorIO ->
            LET str == err.val
            IN newError(ErrorIO, "io error: " \o GoStringN(str.ptr, str.len))
      [] OTHER -> newError(err.tag, "unrecognized error: " \o ToString(err.tag))

(* C.CString(x): a fresh NUL-terminated copy of x on the C heap. *)
CString(x) == x \o <<"NUL">>

toCStr(x) == [ptr |-> CString(x), len |-> Len(x)]

(* &x[0] is an index expression: it panics on a slice of length 0. *)
toCBytes(x) == [panic |-> Len(x) = 0, ptr |-> x, len |-> Len(x)]

----------------------------------------------------------------------------
(* The host side of the ABI. *)

Junk == [ptr |-> <<"?">>, len |-> 1]
NoFault == [tag |-> -1, val |-> Junk]
ErrorUnion(tag) == [tag |-> tag, val |-> Junk]
IOFault == [tag |-> ErrorIO, val |-> [ptr |-> <<"d", "i", "s", "k">>, len |-> 4]]

(* Errors the host may answer with for reasons of its own, whatever the call. *)
OpenFaults == {ErrorUnion(ErrorAccessDenied), IOFault}
OpFaults == {IOFault}

HostOk(v) == [is_err |-> FALSE, val |-> v]
HostErr(e) == [is_err |-> TRUE, val |-> e]

(* The host reads len bytes at ptr. *)
ReadDescriptor(d) == SubSeq(d.ptr, 1, d.len)

FreeHandles == {h \in Handles : hostTable[h] = NoStore}

Present(nm, k) == k \in DOMAIN hostData[nm]

key_value_open(cname, fault, h) ==
    LET nm == ReadDescriptor(cname)
    IN IF fault # NoFault THEN [ret |-> HostErr(fault), table |-> hostTable]
       ELSE IF nm \notin KnownStores
            THEN [ret |-> HostErr(ErrorUnion(ErrorNoSuchStore)), table |-> hostTable]
       ELSE IF h \notin FreeHandles
            THEN [ret |-> HostErr(ErrorUnion(ErrorStoreTableFull)), table |-> hostTable]
       ELSE [ret |-> HostOk(h), table |-> [hostTable EXCEPT ![h] = nm]]

key_value_close(h) == [hostTable EXCEPT ![h] = NoStore]

key_value_get(h, ckey, fault) ==
    LET k == ReadDescriptor(ckey)
    IN IF fault # NoFault THEN HostErr(fault)
       ELSE IF hostTable[h] = NoStore THEN HostErr(ErrorUnion(ErrorInvalidStore))
       ELSE IF ~Present(hostTable[h], k) THEN HostErr(ErrorUnion(ErrorNoSuchKey))
       ELSE LET v == hostData[hostTable[h]][k] IN HostOk([ptr |-> v, len |-> Len(v)])

key_value_exists(h, ckey, fault) ==
    LET k == ReadDescriptor(ckey)
    IN IF fault # NoFault THEN HostErr(fault)
       ELSE IF hostTable[h] = NoStore THEN HostErr(ErrorUnion(ErrorInvalidStore))
       ELSE HostOk(Present(hostTable[h], k))

key_value_set(h, ckey, cbytes, fault) ==
    LET k == ReadDescriptor(ckey)
        v == ReadDescriptor(cbytes)
    IN IF fault # NoFault THEN [ret |-> HostErr(fault), data |-> hostData]
       ELSE IF hostTable[h] = NoStore
            THEN [ret |-> HostErr(ErrorUnion(ErrorInvalidStore)), data |-> hostData]
       ELSE [ret |-> HostOk(NoArg),
             data |-> [hostData EXCEPT ![hostTable[h]] = (k :> v) @@ @]]

key_value_delete(h, ckey, fault) ==
    LET k == ReadDescriptor(ckey)
    IN IF fault # NoFault THEN [ret |-> HostErr(fault), data |-> hostData]
       ELSE IF hostTable[h] = NoStore
            THEN [ret |-> HostErr(ErrorUnion(ErrorInvalidStore)), data |-> hostData]
       ELSE [ret |-> HostOk(NoArg),
             data |-> [hostData EXCEPT ![hostTable[h]] =
                          [x \in (DOMAIN @) \ {k} |-> @[x]]]]

HostCall(fn, h, key, value) == [fn |-> fn, h |-> h, key |-> key, value |-> value]

----------------------------------------------------------------------------
(* The Store. *)

Running == ~panicked /\ nops < MaxOps

Invocation(op, s, key, value, fault, calls, hret, val, err) ==
    [op |-> op, s |-> s, key |-> key, value |-> value, fault |-> fault,
     calls |-> calls, hret |-> hret, val |-> val, err |-> err]

NoCall == HostOk(-1)

NoInvocation == Invocation(NoArg, NoArg, NoKey, <<>>, NoFault, <<>>, NoCall, NoArg, NilErr)

NewStore(n) == [name |-> n, active |-> FALSE, ptr |-> 0]

(* A variant of open that calls the host whether or not the Store is active. *)
openReturnsEarly_Never(s) == FALSE

(* A variant of open that also takes a Store holding a non-zero handle for open. *)
openReturnsEarly_HandleSet(s) == active[s] \/ ptr[s] # 0

(* open: an active Store returns nil at once. *)
openReturnsEarly(s) == active[s]

(* A variant of open that marks the Store active before looking at is_err. *)
openResult_ActiveFirst(s, ret) ==
    IF ret.is_err
    THEN [err |-> toErr(ret.val), ptr |-> ptr[s], active |-> TRUE]
    ELSE [err |-> NilErr, ptr |-> ret.val, active |-> TRUE]

(* A variant of open that marks the Store active without storing the handle. *)
openResult_HandleNotStored(s, ret) ==
    IF ret.is_err
    THEN [err |-> toErr(ret.val), ptr |-> ptr[s], active |-> active[s]]
    ELSE [err |-> NilErr, ptr |-> ptr[s], active |-> TRUE]

(* open: the error returned and the fields once the host has answered. *)
openResult(s, ret) ==
    IF ret.is_err
    THEN [err |-> toErr(ret.val), ptr |-> ptr[s], active |-> active[s]]
    ELSE [err |-> NilErr, ptr |-> ret.val, active |-> TRUE]

open(s) ==
    /\ Running
    /\ nops' = nops + 1
    /\ openCalled' = [openCalled EXCEPT ![s] = TRUE]
    /\ UNCHANGED <<name, hostData, panicked, deleted, dec>>
    /\ IF openReturnsEarly(s)
       THEN /\ last' = Invocation("Open", s, NoKey, <<>>, NoFault, <<>>, NoCall, NoArg, NilErr)
            /\ opened' = [opened EXCEPT ![s] = TRUE]
            /\ UNCHANGED <<active, ptr, hostTable, cstrings, handleHist>>
       ELSE \E fault \in {NoFault} \cup OpenFaults, h \in Handles :
              /\ h \in FreeHandles \/ (FreeHandles = {} /\ h = 0)
              /\ LET cname == toCStr(name[s])
                     r == key_value_open(cname, fault, h)
                     ret == r.ret
                     call == HostCall("key_value_open", -1, ReadDescriptor(cname), <<>>)
                     res == openResult(s, ret)
                 IN /\ cstrings' = cstrings + 1
                    /\ hostTable' = r.table
                    /\ ptr' = [ptr EXCEPT ![s] = res.ptr]
                    /\ active' = [active EXCEPT ![s] = res.active]
                    /\ opened' = [opened EXCEPT ![s] = @ \/ res.err = NilErr]
                    /\ issued' = IF ret.is_err THEN issued ELSE [issued EXCEPT ![s] = ret.val]
                    /\ released' = IF ret.is_err THEN released
                                   ELSE [released EXCEPT ![s] = FALSE]
                    /\ opens' = IF ret.is_err THEN opens ELSE [opens EXCEPT ![s] = @ + 1]
                    /\ closes' = closes
                    /\ last' = Invocation("Open", s, NoKey, <<>>, fault, <<call>>, ret,
                                          NoArg, res.err)

Open(s) == open(s)

(* Variants of Close that call the host always, and never. *)
closeCallsHost_Always(s) == TRUE

closeCallsHost_Never(s) == FALSE

(* Close: the host is called for an active Store only. *)
closeCallsHost(s) == active[s]

(* A variant of Close that does not clear the active flag. *)
Close_KeepsActive(s) ==
    /\ Running
    /\ nops' = nops + 1
    /\ IF closeCallsHost(s)
       THEN /\ hostTable' = key_value_close(ptr[s])
            /\ last' = Invocation("Close", s, NoKey, <<>>, NoFault,
                                  <<HostCall("key_value_close", ptr[s], NoKey, <<>>)>>,
                                  NoCall, NoArg, NilErr)
            /\ closes' = [closes EXCEPT ![s] = @ + 1]
            /\ released' = [t \in Stores |-> released[t] \/ issued[t] = ptr[s]]
       ELSE /\ hostTable' = hostTable
            /\ last' = Invocation("Close", s, NoKey, <<>>, NoFault, <<>>, NoCall, NoArg, NilErr)
            /\ UNCHANGED <<closes, released>>
    /\ opened' = [opened EXCEPT ![s] = FALSE]
    /\ UNCHANGED <<name, active, ptr, hostData, cstrings, panicked, openCalled, deleted, dec,
                   issued, opens>>

Close(s) ==
    /\ Running
    /\ nops' = nops + 1
    /\ IF closeCallsHost(s)
       THEN /\ hostTable' = key_value_close(ptr[s])
            /\ last' = Invocation("Close", s, NoKey, <<>>, NoFault,
                                  <<HostCall("key_value_close", ptr[s], NoKey, <<>>)>>,
                                  NoCall, NoArg, NilErr)
            /\ closes' = [closes EXCEPT ![s] = @ + 1]
            /\ released' = [t \in Stores |-> released[t] \/ issued[t] = ptr[s]]
       ELSE /\ hostTable' = hostTable
            /\ last' = Invocation("Close", s, NoKey, <<>>, NoFault, <<>>, NoCall, NoArg, NilErr)
            /\ UNCHANGED <<closes, released>>
    /\ active' = [active EXCEPT ![s] = FALSE]
    /\ opened' = [opened EXCEPT ![s] = FALSE]
    /\ UNCHANGED <<name, ptr, hostData, cstrings, panicked, openCalled, deleted, dec,
                   issued, opens>>

(* A variant of Get that reads the payload region as a byte list before it looks *)
(* at is_err, and returns those bytes beside the error.                          *)
getResult_BytesBesideError(ret) ==
    IF ret.is_err
    THEN LET list == ret.val.val
         IN [val |-> GoBytes(list.ptr, list.len), err |-> toErr(ret.val)]
    ELSE LET list == ret.val
         IN [val |-> GoBytes(list.ptr, list.len), err |-> NilErr]

(* Get: the bytes and the error returned for the host's answer. *)
getResult(ret) ==
    IF ret.is_err
    THEN [val |-> <<>>, err |-> toErr(ret.val)]
    ELSE LET list == ret.val
         IN [val |-> GoBytes(list.ptr, list.len), err |-> NilErr]

Get(s, key) ==
    /\ Running
    /\ nops' = nops + 1
    /\ \E fault \in {NoFault} \cup OpFaults :
         LET ckey == toCStr(key)
             ret == key_value_get(ptr[s], ckey, fault)
             call == HostCall("key_value_get", ptr[s], ReadDescriptor(ckey), <<>>)
             res == getResult(ret)
         IN /\ cstrings' = cstrings + 1
            /\ last' = Invocation("Get", s, key, <<>>, fault, <<call>>, ret, res.val, res.err)
    /\ UNCHANGED <<storeVars, hostVars, panicked, histVars, handleHist, dec>>

(* A variant of Exists that returns whether the call succeeded, not its payload. *)
existsResult_CallSucceeded(ret) ==
    IF ret.is_err
    THEN [val |-> FALSE, err |-> toErr(ret.val)]
    ELSE [val |-> TRUE, err |-> NilErr]

(* Exists: the boolean and the error returned for the host's answer. *)
existsResult(ret) ==
    IF ret.is_err
    THEN [val |-> FALSE, err |-> toErr(ret.val)]
    ELSE [val |-> ret.val, err |-> NilErr]

Exists(s, key) ==
    /\ Running
    /\ nops' = nops + 1
    /\ \E fault \in {NoFault} \cup OpFaults :
         LET ckey == toCStr(key)
             ret == key_value_exists(ptr[s], ckey, fault)
             call == HostCall("key_value_exists", ptr[s], ReadDescriptor(ckey), <<>>)
             res == existsResult(ret)
         IN /\ cstrings' = cstrings + 1
            /\ last' = Invocation("Exists", s, key, <<>>, fault, <<call>>, ret, res.val, res.err)
    /\ UNCHANGED <<storeVars, hostVars, panicked, histVars, handleHist, dec>>

(* History of Delete: "clean" after a successful Delete(k) on an Open Store,     *)
(* "own" once another Store has set k in the same host store since, "no" once    *)
(* the Store itself has invoked Set(k, _) since.                                  *)
AfterSet(s, key, target, ok) ==
    [t \in Stores |->
        [k \in Keys |->
            IF k # key THEN deleted[t][k]
            ELSE IF t = s THEN "no"
            ELSE IF ok /\ deleted[t][k] = "clean" /\ name[t] = target THEN "own"
            ELSE deleted[t][k]]]

AfterDelete(s, key, ok) ==
    IF ok /\ opened[s] THEN [deleted EXCEPT ![s][key] = "clean"] ELSE deleted

Set(s, key, value) ==
    /\ Running
    /\ nops' = nops + 1
    /\ UNCHANGED <<storeVars, hostTable, opened, openCalled, handleHist, dec>>
    /\ LET ckey == toCStr(key)
           cbytes == toCBytes(value)
       IN /\ cstrings' = cstrings + 1
          /\ IF cbytes.panic
             THEN /\ panicked' = TRUE
                  /\ last' = Invocation("Set", s, key, value, NoFault, <<>>, NoCall, NoArg, NilErr)
                  /\ deleted' = AfterSet(s, key, NoStore, FALSE)
                  /\ UNCHANGED hostData
             ELSE \E fault \in {NoFault} \cup OpFaults :
                    LET r == key_value_set(ptr[s], ckey, cbytes, fault)
                        ret == r.ret
                        call == HostCall("key_value_set", ptr[s], ReadDescriptor(ckey),
                                         ReadDescriptor(cbytes))
                    IN /\ hostData' = r.data
                       /\ panicked' = panicked
                       /\ deleted' = AfterSet(s, key, hostTable[ptr[s]], ~ret.is_err)
                       /\ last' = Invocation("Set", s, key, value, fault, <<call>>, ret, NoArg,
                                             IF ret.is_err THEN toErr(ret.val) ELSE NilErr)

(* A variant of Delete that marks the Store inactive when the host call fails. *)
Delete_DeactivatesOnError(s, key) ==
    /\ Running
    /\ nops' = nops + 1
    /\ \E fault \in {NoFault} \cup OpFaults :
         LET ckey == toCStr(key)
             r == key_value_delete(ptr[s], ckey, fault)
             ret == r.ret
             call == HostCall("key_value_delete", ptr[s], ReadDescriptor(ckey), <<>>)
         IN /\ cstrings' = cstrings + 1
            /\ hostData' = r.data
            /\ deleted' = AfterDelete(s, key, ~ret.is_err)
            /\ active' = [active EXCEPT ![s] = @ /\ ~ret.is_err]
            /\ last' = Invocation("Delete", s, key, <<>>, fault, <<call>>, ret, NoArg,
                                  IF ret.is_err THEN toErr(ret.val) ELSE NilErr)
    /\ UNCHANGED <<name, ptr, hostTable, panicked, opened, openCalled, handleHist, dec>>

Delete(s, key) ==
    /\ Running
    /\ nops' = nops + 1
    /\ \E fault \in {NoFault} \cup OpFaults :
         LET ckey == toCStr(key)
             r == key_value_delete(ptr[s], ckey, fault)
             ret == r.ret
             call == HostCall("key_value_delete", ptr[s], ReadDescriptor(ckey), <<>>)
         IN /\ cstrings' = cstrings + 1
            /\ hostData' = r.data
            /\ deleted' = AfterDelete(s, key, ~ret.is_err)
            /\ last' = Invocation("Delete", s, key, <<>>, fault, <<call>>, ret, NoArg,
                                  IF ret.is_err THEN toErr(ret.val) ELSE NilErr)
    /\ UNCHANGED <<storeVars, hostTable, panicked, opened, openCalled, handleHist, dec>>

----------------------------------------------------------------------------
(* The error decoder on its own: one ErrorUnion in, one Error out. *)

Descriptors == {[ptr |-> b, len |-> n] : b \in Buffers, n \in 0 .. 3} \cap
               {d \in [ptr : Buffers, len : 0 .. 3] : d.len <= Len(d.ptr)}

Decode ==
    /\ ~dec.done
    /\ dec' = [dec EXCEPT !.done = TRUE, !.out = toErr([tag |-> dec.tag, val |-> dec.val])]
    /\ UNCHANGED <<name, active, ptr, hostTable, hostData, cstrings, panicked, nops,
                   last, opened, openCalled, deleted, handleHist>>

----------------------------------------------------------------------------
(* Specifications. *)

InitStores ==
    /\ name \in [Stores -> StoreNames]
    /\ active = [s \in Stores |-> NewStore(name[s]).active]
    /\ ptr = [s \in Stores |-> NewStore(name[s]).ptr]
    /\ hostTable = [h \in Handles |-> NoStore]
    /\ hostData = [n \in KnownStores |-> <<>>]
    /\ cstrings = 0
    /\ panicked = FALSE
    /\ nops = 0
    /\ last = NoInvocation
    /\ opened = [s \in Stores |-> FALSE]
    /\ openCalled = [s \in Stores |-> FALSE]
    /\ deleted = [s \in Stores |-> [k \in Keys |-> "no"]]
    /\ issued = [s \in Stores |-> -1]
    /\ released = [s \in Stores |-> FALSE]
    /\ opens = [s \in Stores |-> 0]
    /\ closes = [s \in Stores |-> 0]

Init ==
    /\ InitStores
    /\ dec = [tag |-> 0, val |-> Junk, done |-> FALSE, out |-> NilErr]

Next ==
    \/ \E s \in Stores : Open(s)
    \/ \E s \in Stores : Close(s)
    \/ \E s \in Stores, key \in Keys : Get(s, key)
    \/ \E s \in Stores, key \in Keys : Delete(s, key)
    \/ \E s \in Stores, key \in Keys, value \in Values : Set(s, key, value)
    \/ \E s \in Stores, key \in Keys : Exists(s, key)

Spec == Init /\ [][Next]_vars

InitDecode ==
    /\ InitStores
    /\ dec \in [tag : Tags, val : Descriptors, done : {FALSE}, out : {NilErr}]

NextDecode == Decode

SpecDecode == InitDecode /\ [][NextDecode]_vars

----------------------------------------------------------------------------
(* Properties of the Store, checked under Spec. *)

(* The step is an invocation of op on Store s. *)
Invoked(op, s) == nops' = nops + 1 /\ last'.op = op /\ last'.s = s

HostCalls(inv, fn) == {i \in DOMAIN inv.calls : inv.calls[i].fn = fn}

(* C1: Open on a Store on which Open has succeeded, with no Close since, returns *)
(* nil, issues no host open call and leaves ptr and active as they were.         *)
C1_OpenIdempotent ==
    [][\A s \in Stores :
          (Invoked("Open", s) /\ opened[s]) =>
              /\ last'.err = NilErr
              /\ ~panicked'
              /\ HostCalls(last', "key_value_open") = {}
              /\ hostTable' = hostTable
              /\ ptr'[s] = ptr[s]
              /\ active'[s] = active[s]]_vars

(* C1 witness: an Open that found the Store active and returned nil without a call. *)
C1_SecondOpenReached ==
    /\ last.op = "Open"
    /\ last.calls = <<>>
    /\ last.err = NilErr
    /\ active[last.s]
    /\ hostTable[ptr[last.s]] = name[last.s]

(* C2: Close on a Store that is Closed (never opened, or closed before) issues no *)
(* host close call, leaves the Store Closed and produces no error.               *)
C2_CloseIdempotent ==
    [][\A s \in Stores :
          (Invoked("Close", s) /\ ~opened[s]) =>
              /\ last'.calls = <<>>
              /\ hostTable' = hostTable
              /\ ~active'[s]
              /\ last'.err = NilErr
              /\ ~panicked']_vars

(* C2 witness: a Close without a host call on a Store that holds a handle the     *)
(* host issued (not the zero value), so that it was opened and closed before.    *)
C2_SecondCloseReached ==
    /\ last.op = "Close"
    /\ last.calls = <<>>
    /\ ptr[last.s] = 1
    /\ ~active[last.s]

(* C3: on an Open Store, Set(k, v) completes without a fault for every value v,   *)
(* the empty one included, and when the host calls succeed a Get(k) that follows *)
(* it returns v and no error.                                                    *)
C3_SetGetRoundTrip ==
    [][\A s \in Stores :
          /\ (Invoked("Set", s) /\ opened[s] /\ Len(last'.key) >= 1) => ~panicked'
          /\ (Invoked("Get", s) /\ opened[s] /\ last.op = "Set" /\ last.s = s
                  /\ last.key = last'.key /\ Len(last.key) >= 1
                  /\ last.err = NilErr /\ last'.fault = NoFault) =>
                 (last'.err = NilErr /\ last'.val = last.value)]_vars

(* C3, for the values the code can encode: the round trip of a value of length   *)
(* at least 1.                                                                   *)
C3_RoundTripNonEmpty ==
    [][\A s \in Stores :
          (Invoked("Get", s) /\ opened[s] /\ last.op = "Set" /\ last.s = s
               /\ last.key = last'.key /\ Len(last.value) >= 1
               /\ last.err = NilErr /\ last'.fault = NoFault) =>
              (last'.err = NilErr /\ last'.val = last.value)]_vars

(* C4, as claimed: on an Open Store, after a successful Delete(k) and with no    *)
(* Set(k, _) on that Store since, Exists(k) returns false and no error, and a    *)
(* Get(k) after it returns an Error of kind NoSuchKey.                           *)
C4_DeleteThenAbsent ==
    [][\A s \in Stores :
          /\ (Invoked("Exists", s) /\ opened[s] /\ deleted[s][last'.key] # "no") =>
                 (last'.err = NilErr /\ last'.val = FALSE)
          /\ (Invoked("Get", s) /\ opened[s] /\ deleted[s][last'.key] # "no"
                  /\ last.op = "Exists" /\ last.s = s /\ last.key = last'.key
                  /\ last.err = NilErr /\ last.val = FALSE) =>
                 (last'.err # NilErr /\ last'.err.Code = ErrorNoSuchKey)]_vars

(* C4, amended: the same, provided that no Set(k, _) has succeeded on the same   *)
(* named host store through another Store since the Delete, and that the host   *)
(* does not fail the call for a reason of its own.                               *)
C4_DeleteThenAbsentUndisturbed ==
    [][\A s \in Stores :
          /\ (Invoked("Exists", s) /\ opened[s] /\ deleted[s][last'.key] = "clean"
                  /\ last'.fault = NoFault) =>
                 (last'.err = NilErr /\ last'.val = FALSE)
          /\ (Invoked("Get", s) /\ opened[s] /\ deleted[s][last'.key] = "clean"
                  /\ last'.fault = NoFault) =>
                 (last'.err # NilErr /\ last'.err.Code = ErrorNoSuchKey)]_vars

(* C4 witness: a Get of a deleted key on an Open Store, answered NoSuchKey, while *)
(* the other Store has written to the host.                                      *)
C4_GetAfterDeleteReached ==
    /\ last.op = "Get"
    /\ opened[last.s]
    /\ deleted[last.s][last.key] = "clean"
    /\ last.err = newError(ErrorNoSuchKey, "no such key")
    /\ \E n \in KnownStores : DOMAIN hostData[n] # {}

(* C5: Get on a Store on which Open has never been called does not crash and      *)
(* returns an error, whatever the other Stores have done.                        *)
C5_GetBeforeOpen ==
    [][\A s \in Stores :
          (Invoked("Get", s) /\ ~openCalled[s]) =>
              (~panicked' /\ last'.err # NilErr)]_vars

(* C9: Open on a Closed Store: when the host answers with an error the Store      *)
(* stays Closed, ptr is unchanged and the decoded Error is returned; when the    *)
(* host answers with a handle the Store is Open and ptr is that handle.          *)
C9_OpenOutcome ==
    [][\A s \in Stores :
          (Invoked("Open", s) /\ ~opened[s]) =>
              IF last'.hret.is_err
              THEN /\ ~active'[s]
                   /\ ptr'[s] = ptr[s]
                   /\ last'.err # NilErr
                   /\ last'.err = toErr(last'.hret.val)
                   /\ last'.err.Code = last'.hret.val.tag
              ELSE /\ active'[s]
                   /\ ptr'[s] = last'.hret.val
                   /\ last'.err = NilErr]_vars

(* C9 witness: an Open the host refused, the Store left Closed, while another     *)
(* Store is Open with the handle the host gave it.                               *)
C9_OpenRefusedReached ==
    /\ last.op = "Open"
    /\ last.hret.is_err
    /\ last.err = newError(ErrorAccessDenied, "access denied")
    /\ ~active[last.s]
    /\ \E t \in Stores : active[t] /\ ptr[t] = 1 /\ hostTable[1] = name[t]

(* C10: Close on an Open Store issues exactly one host close call, with the       *)
(* Store's handle, leaves the Store Closed and returns no error.                 *)
C10_CloseOpenStore ==
    [][\A s \in Stores :
          (Invoked("Close", s) /\ opened[s]) =>
              /\ last'.calls = <<HostCall("key_value_close", ptr[s], NoKey, <<>>)>>
              /\ ~active'[s]
              /\ last'.err = NilErr
              /\ ~panicked']_vars

(* C10 witness: a Close that called the host, after which the handle is bound to *)
(* no store.                                                                     *)
C10_CloseCalledHostReached ==
    /\ last.op = "Close"
    /\ Len(last.calls) = 1
    /\ last.calls[1].h = ptr[last.s]
    /\ ~active[last.s]
    /\ hostTable[ptr[last.s]] = NoStore

----------------------------------------------------------------------------
(* Properties of the error decoder, checked under SpecDecode. *)

(* The message table of the error kinds 0..4. *)
StaticMessage(tag) ==
    CASE tag = 0 -> "store table full"
      [] tag = 1 -> "no such store"
      [] tag = 2 -> "access denied"
      [] tag = 3 -> "invalid store"
      [] tag = 4 -> "no such key"

(* The text a descriptor of Buffers denotes, read off by hand. *)
PayloadText(d) ==
    CASE d.len = 0 -> ""
      [] d.ptr = <<"d">> -> "d"
      [] d.ptr = <<"d", "i">> -> IF d.len = 1 THEN "d" ELSE "di"
      [] d.ptr = <<"x", "y", "z">> ->
            IF d.len = 1 THEN "x" ELSE IF d.len = 2 THEN "xy" ELSE "xyz"

(* C6: a tag in 0..4 decodes to the Error whose kind is the tag and whose message *)
(* is the fixed string of that kind, whatever the payload.                       *)
C6_StaticKinds ==
    (dec.done /\ dec.tag \in 0 .. 4) =>
        dec.out = [Code |-> dec.tag, Message |-> StaticMessage(dec.tag)]

(* C6 witness: tag 4 decoded beside a payload that is not empty. *)
C6_NoSuchKeyDecoded ==
    /\ dec.done
    /\ dec.tag = 4
    /\ dec.val.len = 3
    /\ dec.out = [Code |-> 4, Message |-> "no such key"]

(* C7: tag 5 decodes to kind IO with the message "io error: " followed by the     *)
(* payload's text.                                                               *)
C7_IOMessage ==
    (dec.done /\ dec.tag = 5) =>
        dec.out = [Code |-> 5, Message |-> "io error: " \o PayloadText(dec.val)]

(* C7 witness: a payload shorter than its buffer, decoded. *)
C7_IODecoded ==
    /\ dec.done
    /\ dec.tag = 5
    /\ dec.val = [ptr |-> <<"x", "y", "z">>, len |-> 2]
    /\ dec.out = [Code |-> 5, Message |-> "io error: xy"]

(* C8: every tag decodes to an Error; a tag outside 0..5 to one whose kind is the *)
(* tag and whose message says that the tag is not recognized.                    *)
C8_DecoderTotal ==
    dec.done =>
        /\ dec.out # NilErr
        /\ DOMAIN dec.out = {"Code", "Message"}
        /\ dec.tag \notin 0 .. 5 =>
               dec.out = [Code |-> dec.tag,
                          Message |-> "unrecognized error: " \o ToString(dec.tag)]

(* C8 witness: tag 99 decoded. *)
C8_UnknownTagDecoded ==
    /\ dec.done
    /\ dec.tag = 99
    /\ dec.out = [Code |-> 99, Message |-> "unrecognized error: 99"]

----------------------------------------------------------------------------
(* Properties of the Store's use of the connection, checked under Spec. *)

KeyOps == {"Get", "Set", "Delete", "Exists"}

(* The step is an invocation of Get, Set, Delete or Exists on Store s. *)
InvokedKeyOp(s) == nops' = nops + 1 /\ last'.op \in KeyOps /\ last'.s = s

(* C11: an operation (Get, Set, Delete, Exists) invoked on a Store that is not  *)
(* active first issues the host open call, and its own host call is made only   *)
(* once the Store has become active.                                            *)
C11_LazyOpen ==
    [][\A s \in Stores :
          (InvokedKeyOp(s) /\ ~active[s]) =>
              /\ Len(last'.calls) >= 1
              /\ last'.calls[1].fn = "key_value_open"
              /\ (Len(last'.calls) >= 2 => active'[s])]_vars

(* C12: Get, Set, Delete and Exists never open or close: whatever the host       *)
(* answers, the invocation issues no host open and no host close call and leaves *)
(* the active flag, the stored handle and the host's handle table as they were;  *)
(* a Store that becomes active does so in an invocation of Open on it.           *)
C12_NoAutoOpen ==
    [][\A s \in Stores :
          /\ InvokedKeyOp(s) =>
                /\ HostCalls(last', "key_value_open") = {}
                /\ HostCalls(last', "key_value_close") = {}
                /\ active' = active
                /\ ptr' = ptr
                /\ hostTable' = hostTable
          /\ (~active[s] /\ active'[s]) => Invoked("Open", s)]_vars

(* C12 witness: an operation on a Store never opened made its host call, got an *)
(* error for an answer, and the Store is still inactive with its zero handle.   *)
C12_OpOnInactiveReached ==
    /\ last.op \in KeyOps
    /\ Len(last.calls) = 1
    /\ last.hret.is_err
    /\ ~openCalled[last.s]
    /\ ~active[last.s]
    /\ ptr[last.s] = 0

(* The host function that operation op calls. *)
HostFunction(op) ==
    CASE op = "Get" -> "key_value_get"
      [] op = "Set" -> "key_value_set"
      [] op = "Delete" -> "key_value_delete"
      [] op = "Exists" -> "key_value_exists"
      [] op = "Open" -> "key_value_open"
      [] op = "Close" -> "key_value_close"

(* C13: every invocation of Get, Set, Delete or Exists issues exactly one host  *)
(* call, its own, and Open on a Closed Store exactly one host open call; when   *)
(* the host answers with an error the invocation returns it without a second    *)
(* call.                                                                        *)
C13_OneHostCall ==
    [][\A s \in Stores :
          (InvokedKeyOp(s) \/ (Invoked("Open", s) /\ ~active[s])) =>
              /\ Len(last'.calls) = 1
              /\ last'.calls[1].fn = HostFunction(last'.op)
              /\ last'.hret.is_err => last'.err # NilErr]_vars

(* C14: Get, Set, Delete or Exists on a Store that is Closed after an earlier    *)
(* successful Open and a Close, passing its stale handle to the host, returns an *)
(* error and changes nothing in the host's stores, also when the host has issued *)
(* the same handle value to another Store since.                                 *)
C14_StaleHandleRefused ==
    [][\A s \in Stores :
          (InvokedKeyOp(s) /\ ~active[s] /\ opens[s] > 0 /\ released[s]
              /\ Len(last'.calls) = 1) =>
              /\ last'.calls[1].h = issued[s]
              /\ last'.err # NilErr
              /\ hostData' = hostData]_vars

(* C15: between invocations no buffer allocated to encode a key or a store name *)
(* is still allocated: every one has been released by the time the operation    *)
(* that allocated it returned.                                                  *)
C15_EncodeBuffersReleased == cstrings = 0

(* The Error each ErrorUnion the host answers with stands for, read off by hand. *)
ExpectedError(e) ==
    IF e = IOFault THEN [Code |-> 5, Message |-> "io error: disk"]
    ELSE [Code |-> e.tag, Message |-> StaticMessage(e.tag)]

(* C16: an invocation that received a host result returns a non-nil error iff   *)
(* is_err is set; with is_err the error is the decoded ErrorUnion and the value *)
(* is the zero value (no bytes for Get, false for Exists, and for Open the      *)
(* stored handle is left alone); without is_err the value is the host's payload *)
(* (the bytes for Get, the boolean for Exists, the handle for Open).            *)
C16_ResultDecoding ==
    [][\A s \in Stores :
          (nops' = nops + 1 /\ last'.s = s /\ last'.op # "Close"
              /\ Len(last'.calls) = 1) =>
              /\ (last'.err # NilErr) <=> last'.hret.is_err
              /\ last'.hret.is_err =>
                    /\ last'.err = ExpectedError(last'.hret.val)
                    /\ last'.op = "Get" => last'.val = <<>>
                    /\ last'.op = "Exists" => last'.val = FALSE
                    /\ last'.op = "Open" => ptr'[s] = ptr[s]
              /\ ~last'.hret.is_err =>
                    /\ last'.op = "Get" =>
                          /\ last'.val = SubSeq(last'.hret.val.ptr, 1, last'.hret.val.len)
                          /\ last'.val = hostData[hostTable[last'.calls[1].h]][last'.key]
                    /\ last'.op = "Exists" => last'.val = last'.hret.val
                    /\ last'.op = "Open" => ptr'[s] = last'.hret.val]_vars

(* C16 witness: a Get the host refused with NoSuchKey returned no bytes and the *)
(* decoded error.                                                               *)
C16_GetErrorReached ==
    /\ last.op = "Get"
    /\ last.hret.is_err
    /\ last.val = <<>>
    /\ last.err = [Code |-> 4, Message |-> "no such key"]
    /\ opened[last.s]

(* C17: whenever a Store is active its stored handle is the one its most recent *)
(* successful host open returned, and that handle has not been passed to host   *)
(* close since; every host call that Get, Set, Delete or Exists makes on an     *)
(* active Store carries that handle.                                            *)
C17_ActiveHandle ==
    /\ [](\A s \in Stores :
             active[s] => (opens[s] > 0 /\ ptr[s] = issued[s] /\ ~released[s]))
    /\ [][\A s \in Stores :
             (InvokedKeyOp(s) /\ active[s]) =>
                 \A i \in DOMAIN last'.calls : last'.calls[i].h = issued[s]]_vars

(* C17 witness: an operation on an active Store was served by the host on the   *)
(* handle 1 that the Store's open had been issued.                              *)
C17_ActiveCallReached ==
    /\ last.op \in KeyOps
    /\ Len(last.calls) = 1
    /\ ~last.hret.is_err
    /\ active[last.s]
    /\ issued[last.s] = 1
    /\ last.calls[1].h = 1
    /\ hostTable[1] = name[last.s]

(* C18: a Store makes no more host close calls than it has had successful host  *)
(* opens, and every host close call it makes carries the handle its most recent *)
(* successful host open returned, which has not been passed to host close       *)
(* before: no handle is closed twice and none is closed that was not issued to  *)
(* this Store.                                                                  *)
C18_CloseOncePerOpen ==
    /\ [](\A s \in Stores : closes[s] <= opens[s])
    /\ [][\A s \in Stores :
             (Invoked("Close", s) /\ HostCalls(last', "key_value_close") # {}) =>
                 /\ Len(last'.calls) = 1
                 /\ opens[s] > 0
                 /\ last'.calls[1].h = issued[s]
                 /\ ~released[s]
                 /\ released'[s]]_vars

(* C18 witness: a Store opened and closed twice has made its second host close. *)
C18_SecondCloseCallReached ==
    /\ last.op = "Close"
    /\ Len(last.calls) = 1
    /\ opens[last.s] = 2
    /\ closes[last.s] = 2
    /\ released[last.s]

(* C19: Open on a Store that was opened and has been closed issues a host open  *)
(* call of its own; when the host answers with a handle the Store is active     *)
(* with that handle stored in the place of the old one, and the operations that *)
(* follow on the reopened Store carry the new handle, which the host holds      *)
(* bound to the Store's name, not a handle that has been closed.                *)
C19_Reopen ==
    [][\A s \in Stores :
          /\ (Invoked("Open", s) /\ opens[s] > 0 /\ released[s]) =>
                /\ last'.calls = <<HostCall("key_value_open", -1, name[s], <<>>)>>
                /\ ~last'.hret.is_err =>
                      /\ last'.err = NilErr
                      /\ active'[s]
                      /\ ptr'[s] = last'.hret.val
                      /\ hostTable[ptr'[s]] = NoStore
                      /\ hostTable'[ptr'[s]] = name[s]
                /\ last'.hret.is_err => (~active'[s] /\ last'.err # NilErr)
          /\ (InvokedKeyOp(s) /\ opens[s] >= 2 /\ opened[s]) =>
                \A i \in DOMAIN last'.calls :
                    /\ last'.calls[i].h = issued[s]
                    /\ ~released[s]
                    /\ hostTable[last'.calls[i].h] = name[s]]_vars

(* C19 witness: a Store opened, closed and opened again with handle 1 has had   *)
(* an operation served on that handle.                                          *)
C19_OpAfterReopenReached ==
    /\ last.op \in KeyOps
    /\ Len(last.calls) = 1
    /\ ~last.hret.is_err
    /\ opens[last.s] = 2
    /\ closes[last.s] = 1
    /\ active[last.s]
    /\ last.calls[1].h = 1
    /\ ptr[last.s] = 1
====
